---- MODULE Spec2Model ----
(***************************************************************************)
(* A model of extract_chat_log.py: the record normalizer                   *)
(* (normalize_message), the text cleaner (clean_user_text), the content    *)
(* renderer (render_content_blocks) and the aggregation / sort / assembly  *)
(* loop of main.                                                           *)
(*                                                                         *)
(* JSON values are records tagged by k:                                    *)
(*   "absent" (the key is not in the dict), "null", "bool", "str", "int",  *)
(*   "list", "dict".                                                       *)
(* A string is a sequence of atoms.  An atom is one character, or a        *)
(* literal the regular expressions of the cleaner treat as a unit          *)
(* (e.g. "</environment_context>"); no atom is a prefix of another.        *)
(***************************************************************************)
EXTENDS Integers, Sequences, FiniteSets, TLC

VARIABLES
    \* ---- normalize_message called on one raw record
    data, result, npc,
    \* ---- clean_user_text run line by line
    text, lines, li, out, skip_bullets, cleaned, cpc,
    \* ---- main: aggregation loop, sort, document assembly
    files, file_idx, line_idx, all_messages, total_lines, skipped_lines,
    output, current_conversation, msg_idx, message_count, pc

normVars == <<data, result, npc>>
cleanVars == <<text, lines, li, out, skip_bullets, cleaned, cpc>>
mainVars == <<files, file_idx, line_idx, all_messages, total_lines, skipped_lines,
              output, current_conversation, msg_idx, message_count, pc>>
vars == <<data, result, npc,
          text, lines, li, out, skip_bullets, cleaned, cpc,
          files, file_idx, line_idx, all_messages, total_lines, skipped_lines,
          output, current_conversation, msg_idx, message_count, pc>>

(***************************************************************************)
(* Bounds of the model.                                                    *)
(***************************************************************************)
MaxLines == 3
MaxTextLines == 4

(***************************************************************************)
(* JSON values and Python's view of them.                                  *)
(***************************************************************************)
Absent == [k |-> "absent"]
Null == [k |-> "null"]
False == [k |-> "bool", b |-> FALSE]
Str(s) == [k |-> "str", s |-> s]
Num(n) == [k |-> "int", n |-> n]
List(items) == [k |-> "list", items |-> items]
Dict(json) == [k |-> "dict", json |-> json]

\* dict.get(key): None for a missing key
Get(v) == IF v.k = "absent" THEN Null ELSE v
\* key in dict
Has(v) == v.k # "absent"
\* bool(v)
Truthy(v) ==
    CASE v.k = "absent" -> FALSE
      [] v.k = "null" -> FALSE
      [] v.k = "bool" -> v.b
      [] v.k = "str" -> v.s # <<>>
      [] v.k = "int" -> v.n # 0
      [] v.k = "list" -> v.items # <<>>
      [] v.k = "dict" -> TRUE
      [] OTHER -> FALSE
\* a or b
Or(a, b) == IF Truthy(a) THEN a ELSE b
IsStr(v) == v.k = "str"

\* a nested message / payload / delta object: a dict with the keys the code reads
MsgObj(role, content) == [k |-> "obj", role |-> role, content |-> content]
PayloadObj(ts, role, content, message, cwd, sid) ==
    [k |-> "obj", timestamp |-> ts, role |-> role, content |-> content,
     message |-> message, cwd |-> cwd, sessionId |-> sid]
DeltaObj(content, txt) == [k |-> "obj", content |-> content, text |-> txt]
IsObj(v) == v.k = "obj"
\* bool(dict): an empty dict is falsy
MsgTruthy(m) == IsObj(m) /\ (Has(m.role) \/ Has(m.content))
PayloadTruthy(p) ==
    IsObj(p) /\ (Has(p.timestamp) \/ Has(p.role) \/ Has(p.content) \/ Has(p.message)
                 \/ Has(p.cwd) \/ Has(p.sessionId))

(***************************************************************************)
(* Strings.                                                                *)
(***************************************************************************)
S_user == <<"u", "s", "e", "r">>
S_assistant == <<"a", "s", "s", "i", "s", "t", "a", "n", "t">>
S_model == <<"m", "o", "d", "e", "l">>
S_User == <<"U", "s", "e", "r">>
S_ASSISTANT == <<"A", "S", "S", "I", "S", "T", "A", "N", "T">>
S_Assistant_Response == <<"A", "s", "s", "i", "s", "t", "a", "n", "t", "_", "R", "e", "s", "p", "o", "n", "s", "e">>
S_Model == <<"M", "o", "d", "e", "l">>
S_system == <<"s", "y", "s", "t", "e", "m">>
S_superuser == <<"s", "u", "p", "e", "r", "u", "s", "e", "r">>
S_models == <<"m", "o", "d", "e", "l", "s">>
S_user_assistant == <<"u", "s", "e", "r", "_", "a", "s", "s", "i", "s", "t", "a", "n", "t">>

\* str.lower(), character by character
LowerChar(c) ==
    CASE c = "A" -> "a"
      [] c = "D" -> "d"
      [] c = "E" -> "e"
      [] c = "I" -> "i"
      [] c = "L" -> "l"
      [] c = "M" -> "m"
      [] c = "N" -> "n"
      [] c = "O" -> "o"
      [] c = "P" -> "p"
      [] c = "R" -> "r"
      [] c = "S" -> "s"
      [] c = "T" -> "t"
      [] c = "U" -> "u"
      [] OTHER -> c
Lower(s) == [i \in 1..Len(s) |-> LowerChar(s[i])]

\* sub in s
Contains(sub, s) ==
    \E i \in 1..(Len(s) - Len(sub) + 1) : SubSeq(s, i, i + Len(sub) - 1) = sub

Digits == <<"0", "1", "2", "3", "4", "5", "6", "7", "8", "9">>
\* str(v): a string is itself; any other value prints as text that starts
\* with a digit, a bracket or a capital (5, [..], {..}, None, False)
StrOf(v) ==
    CASE v.k = "str" -> v.s
      [] v.k = "int" -> <<Digits[v.n + 1]>>
      [] v.k = "list" -> <<"[", "]">>
      [] v.k = "dict" -> <<"{", "}">>
      [] OTHER -> <<"N", "o", "n", "e">>

(***************************************************************************)
(* normalize_message                                                       *)
(***************************************************************************)
None == [k |-> "None"]

\* a variant of ResolveTimestamp that consults payload.timestamp first
ResolveTimestamp_payloadFirst(d) ==
    Or(Or(Or(Or(IF IsObj(d.payload) THEN Get(d.payload.timestamp) ELSE False,
                Get(d.timestamp)),
             Get(d.created_at)),
          Get(d.time)),
       Get(d.ts))

\* lines 26-32
ResolveTimestamp(d) ==
    Or(Or(Or(Or(Get(d.timestamp),
                IF IsObj(d.payload) THEN Get(d.payload.timestamp) ELSE False),
             Get(d.created_at)),
          Get(d.time)),
       Get(d.ts))

\* line 38
PayloadOf(d) == IF IsObj(d.payload) THEN d.payload ELSE None

\* lines 35-40
MessageObjOf(d) ==
    LET m0 == IF IsObj(d.message) THEN d.message ELSE None
        p == PayloadOf(d)
    IN IF PayloadTruthy(p) /\ ~MsgTruthy(m0) /\ IsObj(p.message)
       THEN p.message
       ELSE m0

\* lines 52-58: the synonym mapping of a top-level role
MapRole(role) ==
    IF IsStr(role)
    THEN LET rl == Lower(role.s)
         IN IF rl \notin {S_user, S_assistant}
            THEN IF Contains(S_assistant, rl) \/ rl \in {S_model}
                 THEN Str(S_assistant)
                 ELSE IF Contains(S_user, rl) THEN Str(S_user) ELSE role
            ELSE role
    ELSE role

\* lines 43-58
ResolveRole(d) ==
    LET m == MessageObjOf(d)
        p == PayloadOf(d)
        r1 == IF MsgTruthy(m) THEN Get(m.role) ELSE Null
        r2 == IF ~Truthy(r1) /\ PayloadTruthy(p) THEN Get(p.role) ELSE r1
    IN IF ~Truthy(r2)
       THEN MapRole(Or(Or(Get(d.role), Get(d.type)), Get(d.source)))
       ELSE r2

\* a variant of RoleAccepted that lets every truthy role through
RoleAccepted_anyRole(role) == Truthy(role)

\* line 61 (negated): the record is a message
RoleAccepted(role) ==
    Truthy(role) /\ Lower(StrOf(role)) \in {S_user, S_assistant}

\* a variant of ResolveContent that consults payload.content before message.content
ResolveContent_payloadFirst(d) ==
    LET m == MessageObjOf(d)
        p == PayloadOf(d)
        c1 == IF PayloadTruthy(p) /\ Has(p.content) THEN Get(p.content) ELSE Null
        c2 == IF c1 = Null /\ MsgTruthy(m) /\ Has(m.content)
              THEN Get(m.content) ELSE c1
    IN IF c2 = Null
       THEN IF Has(d.content) THEN Get(d.content)
            ELSE IF Has(d.text) THEN Get(d.text)
            ELSE IF IsObj(d.delta) /\ Has(d.delta.content) THEN Get(d.delta.content)
            ELSE IF IsObj(d.delta) /\ Has(d.delta.text) THEN Get(d.delta.text)
            ELSE IF IsStr(d.delta) THEN d.delta
            ELSE Null
       ELSE c2

\* lines 65-84
ResolveContent(d) ==
    LET m == MessageObjOf(d)
        p == PayloadOf(d)
        c1 == IF MsgTruthy(m) /\ Has(m.content) THEN Get(m.content) ELSE Null
        c2 == IF c1 = Null /\ PayloadTruthy(p) /\ Has(p.content)
              THEN Get(p.content) ELSE c1
    IN IF c2 = Null
       THEN IF Has(d.content) THEN Get(d.content)
            ELSE IF Has(d.text) THEN Get(d.text)
            ELSE IF IsObj(d.delta) /\ Has(d.delta.content) THEN Get(d.delta.content)
            ELSE IF IsObj(d.delta) /\ Has(d.delta.text) THEN Get(d.delta.text)
            ELSE IF IsStr(d.delta) THEN d.delta
            ELSE Null
       ELSE c2

\* lines 87-91 (a missing or empty payload gives a falsy operand)
ResolveCwd(d) ==
    LET p == PayloadOf(d)
    IN Or(Or(Get(d.cwd), IF PayloadTruthy(p) THEN Get(p.cwd) ELSE Null),
          Get(d.working_directory))

\* lines 92-96
ResolveSessionId(d) ==
    LET p == PayloadOf(d)
    IN Or(Or(Get(d.sessionId), IF PayloadTruthy(p) THEN Get(p.sessionId) ELSE Null),
          Get(d.session_id))

\* lines 19-106; d is a dict
normalize_message(d, file_basename) ==
    LET role == ResolveRole(d)
        content == ResolveContent(d)
    IN IF ~RoleAccepted(role)
       THEN None
       ELSE [k |-> "msg",
             timestamp |-> ResolveTimestamp(d),
             role |-> Lower(StrOf(role)),
             content |-> IF content # Null THEN content ELSE Str(<<>>),
             file |-> file_basename,
             message_id |-> Or(Or(Get(d.uuid), Get(d.id)), Str(<<>>)),
             cwd |-> Or(ResolveCwd(d), Str(<<>>)),
             session_id |-> Or(ResolveSessionId(d), Str(<<>>))]

(***************************************************************************)
(* Raw records the normalizer is exercised on.                             *)
(***************************************************************************)
NoPayload == PayloadObj(Absent, Absent, Absent, Absent, Absent, Absent)
BaseRecord ==
    [timestamp |-> Absent, created_at |-> Absent, time |-> Absent, ts |-> Absent,
     message |-> Absent, payload |-> Absent,
     role |-> Absent, type |-> Absent, source |-> Absent,
     content |-> Absent, text |-> Absent, delta |-> Absent,
     cwd |-> Absent, working_directory |-> Absent,
     sessionId |-> Absent, session_id |-> Absent,
     uuid |-> Absent, id |-> Absent]

\* timestamps: two ISO-8601 instants (atoms, ordered as their text is) and "x"
T1 == <<"2024-01-01T00:00:00Z">>
T2 == <<"2024-01-02T00:00:00Z">>
Tx == <<"x">>

TopRoles ==
    {Absent, Null, Num(5), Str(<<>>), Str(S_user), Str(S_assistant), Str(S_User),
     Str(S_ASSISTANT), Str(S_Assistant_Response), Str(S_model), Str(S_Model),
     Str(S_system), Str(S_superuser), Str(S_models), Str(S_user_assistant)}
NestedRoles ==
    {Absent, Str(<<>>), Str(S_user), Str(S_ASSISTANT), Str(S_Assistant_Response),
     Str(S_model), Str(S_superuser), Str(S_system)}

RoleRecords ==
    {[BaseRecord EXCEPT !.message = m, !.payload = p, !.role = r, !.type = t] :
        m \in {Absent, Str(S_user)} \cup {MsgObj(x, Str(<<"m">>)) : x \in NestedRoles},
        p \in {Absent, Num(5)}
              \cup {[NoPayload EXCEPT !.role = x] : x \in {Absent, Str(S_user), Str(S_model)}}
              \cup {[NoPayload EXCEPT !.message = MsgObj(Str(S_assistant), Absent)]},
        r \in TopRoles,
        t \in {Absent, Str(S_model), Str(S_system)}}

ContentRecords ==
    {[BaseRecord EXCEPT !.role = Str(S_user), !.message = m, !.payload = p,
                        !.content = c, !.text = t, !.delta = d] :
        m \in {Absent} \cup {MsgObj(Str(S_user), x) :
                                x \in {Absent, Null, Str(<<>>), Str(<<"m">>)}},
        p \in {Absent} \cup {[NoPayload EXCEPT !.content = x] :
                                x \in {Null, Str(<<>>), Str(<<"p">>), Num(0)}},
        c \in {Absent, Null, Str(<<>>), Str(<<"c">>), List(<<>>)},
        t \in {Absent, Str(<<"t">>)},
        d \in {Absent, Str(<<"d">>), DeltaObj(Str(<<"e">>), Absent),
               DeltaObj(Absent, Str(<<"f">>))}}

TimestampRecords ==
    {[BaseRecord EXCEPT !.role = Str(S_user), !.timestamp = a, !.payload = p,
                        !.created_at = c, !.time = t, !.ts = s] :
        a \in {Absent, Null, Str(<<>>), Str(T1), Num(0), Num(7)},
        p \in {Absent, Str(T2)} \cup {[NoPayload EXCEPT !.timestamp = x] :
                                x \in {Absent, Str(<<>>), Str(T2)}},
        c \in {Absent, Str(Tx)},
        t \in {Absent, Null, Str(T1)},
        s \in {Absent, Str(<<>>), Str(T2)}}

Records == RoleRecords \cup ContentRecords \cup TimestampRecords

(***************************************************************************)
(* SpecNorm: normalize_message applied to one raw record.                  *)
(***************************************************************************)
Pending == [k |-> "pending"]
F1 == <<"a", ".", "j", "s", "o", "n", "l">>

NormIdle == data = BaseRecord /\ result = Pending /\ npc = "idle"
CleanIdle ==
    /\ text = <<>> /\ lines = <<>> /\ li = 0 /\ out = <<>>
    /\ skip_bullets = FALSE /\ cleaned = <<>> /\ cpc = "idle"
MainIdle ==
    /\ files = <<>> /\ file_idx = 0 /\ line_idx = 0 /\ all_messages = <<>>
    /\ total_lines = 0 /\ skipped_lines = 0
    /\ output = <<>> /\ current_conversation = Null
    /\ msg_idx = 0 /\ message_count = 0 /\ pc = "idle"

InitNorm ==
    /\ data \in Records
    /\ result = Pending
    /\ npc = "call"
    /\ CleanIdle
    /\ MainIdle

Normalize ==
    /\ npc = "call"
    /\ result' = normalize_message(data, Str(F1))
    /\ npc' = "returned"
    /\ UNCHANGED <<data, cleanVars, mainVars>>

NextNorm == Normalize
SpecNorm == InitNorm /\ [][NextNorm]_vars

(***************************************************************************)
(* Properties of normalize_message (checked under SpecNorm).               *)
(***************************************************************************)
Returned == npc = "returned"
IsMsg(r) == r.k = "msg"

\* the first element of seq that satisfies P, else default
FirstSuch(seq, P(_), default) ==
    LET idx == {i \in 1..Len(seq) : P(seq[i])}
    IN IF idx = {} THEN default
       ELSE seq[CHOOSE i \in idx : \A j \in idx : i <= j]

\* every place of a raw record that can carry a role
RoleFields(d) ==
    {d.role, d.type, d.source}
      \cup (IF IsObj(d.message) THEN {d.message.role} ELSE {})
      \cup (IF IsObj(d.payload) THEN {d.payload.role} ELSE {})
      \cup (IF IsObj(d.payload) /\ IsObj(d.payload.message)
            THEN {d.payload.message.role} ELSE {})
Mappable(v) ==
    IsStr(v) /\ (Contains(S_user, Lower(v.s)) \/ Contains(S_assistant, Lower(v.s))
                 \/ Lower(v.s) = S_model)

\* C1: a canonical message is returned only with role "user" or "assistant"
\* (lower case) and a content that is never None; a record whose role fields
\* are all absent or unmappable yields None.
C1_RoleClosed ==
    Returned =>
      /\ IsMsg(result) =>
            /\ result.role \in {S_user, S_assistant}
            /\ result.content.k \notin {"null", "absent", "None"}
      /\ (\A v \in RoleFields(data) : ~Mappable(v)) => result = None
C1_Witness ==
    /\ Returned /\ IsMsg(result)
    /\ data.role = Str(S_ASSISTANT) /\ result.role = S_assistant
    /\ result.content = Str(<<>>)

\* the role as resolved by tier, before any mapping: message.role, else
\* payload.role, else top-level role / type / source
TierRole(d) ==
    FirstSuch(<<IF MsgTruthy(MessageObjOf(d)) THEN Get(MessageObjOf(d).role) ELSE Null,
                IF PayloadTruthy(PayloadOf(d)) THEN Get(d.payload.role) ELSE Null,
                Get(d.role), Get(d.type), Get(d.source)>>,
              Truthy, Null)

\* C2: whichever tier the role is resolved from, a role string containing
\* "assistant" or equal to "model" (case-insensitively) yields role
\* "assistant", and one that otherwise contains "user" yields role "user".
C2_MappingEveryTier ==
    Returned /\ IsStr(TierRole(data)) =>
      LET rl == Lower(TierRole(data).s)
      IN /\ (Contains(S_assistant, rl) \/ rl = S_model) =>
               IsMsg(result) /\ result.role = S_assistant
         /\ (~(Contains(S_assistant, rl) \/ rl = S_model) /\ Contains(S_user, rl)) =>
               IsMsg(result) /\ result.role = S_user

\* the content tiers of a raw record, in precedence order
ContentTiers(d) ==
    <<IF MsgTruthy(MessageObjOf(d)) THEN MessageObjOf(d).content ELSE Absent,
      IF PayloadTruthy(PayloadOf(d)) THEN d.payload.content ELSE Absent,
      d.content,
      d.text,
      IF IsObj(d.delta) THEN d.delta.content ELSE Absent,
      IF IsObj(d.delta) THEN d.delta.text ELSE Absent,
      IF IsStr(d.delta) THEN d.delta ELSE Absent>>
NullToEmpty(v) == IF v.k \in {"null", "absent"} THEN Str(<<>>) ELSE v

\* C3 as stated: the first content field that is present is used, whatever
\* its value, and no later tier is consulted.
C3_FirstPresentWins ==
    Returned /\ IsMsg(result) =>
      result.content = NullToEmpty(FirstSuch(ContentTiers(data), Has, Absent))

\* C3 amended: at the message and payload tiers a field is used only when
\* it is present and not null; among the top-level tiers the first key that
\* is present is used even when null; a null or unresolved content is "".
AmendedContent(d) ==
    LET t == ContentTiers(d)
        nested == FirstSuch(<<t[1], t[2]>>, LAMBDA v : Has(v) /\ v # Null, Absent)
    IN IF Has(nested) THEN nested
       ELSE NullToEmpty(FirstSuch(SubSeq(t, 3, 7), Has, Absent))
C3_FirstNonNullNested ==
    Returned /\ IsMsg(result) => result.content = AmendedContent(data)
C3_Witness ==
    /\ Returned /\ IsMsg(result)
    /\ IsObj(data.message) /\ data.message.content = Null
    /\ IsObj(data.payload) /\ data.payload.content = Str(<<"p">>)
    /\ Has(data.content)
    /\ result.content = Str(<<"p">>)

\* the timestamp tiers of a raw record, in precedence order
TimestampTiers(d) ==
    <<d.timestamp,
      IF IsObj(d.payload) THEN d.payload.timestamp ELSE Absent,
      d.created_at, d.time, d.ts>>

\* C4 as stated: a record with a top-level timestamp and a payload.timestamp
\* set to different (non-null) values resolves to the top-level value.
C4_TopLevelWins ==
    (/\ Returned /\ IsMsg(result)
     /\ Has(data.timestamp) /\ data.timestamp # Null
     /\ IsObj(data.payload) /\ Has(data.payload.timestamp)
     /\ data.payload.timestamp # Null
     /\ data.payload.timestamp # data.timestamp)
    => result.timestamp = data.timestamp

\* C4 amended: each earlier tier wins whenever its value is truthy (not
\* null, "" or 0); with no truthy tier the result is the value of ts.
C4_FirstTruthyWins ==
    Returned /\ IsMsg(result) =>
      result.timestamp = FirstSuch(TimestampTiers(data), Truthy, Get(data.ts))
C4_Witness ==
    /\ Returned /\ IsMsg(result)
    /\ data.timestamp = Str(T1)
    /\ IsObj(data.payload) /\ data.payload.timestamp = Str(T2)
    /\ result.timestamp = Str(T1)

(***************************************************************************)
(* clean_user_text                                                         *)
(***************************************************************************)
NL == "\n"
OPEN == "<environment_context>"
CLOSE == "</environment_context>"
CTX == "Context from my IDE setup:"
ACTIVE == "Active file:"
TABS == "Open tabs:"
\* \s within the atoms used
IsWs(c) == c \in {" ", NL}

Min(S) == CHOOSE i \in S : \A j \in S : i <= j
Tail2(s, i) == SubSeq(s, i, Len(s))

\* line 124: every leftmost, shortest <environment_context ... </environment_context>
\* region is removed
RECURSIVE RemoveEnvContext(_)
RemoveEnvContext(s) ==
    LET opens == {i \in 1..Len(s) : s[i] = OPEN}
    IN IF opens = {} THEN s
       ELSE LET i == Min(opens)
                closes == {j \in (i + 1)..Len(s) : s[j] = CLOSE}
            IN IF closes = {} THEN s
               ELSE SubSeq(s, 1, i - 1) \o RemoveEnvContext(Tail2(s, Min(closes) + 1))

\* line 126: str.splitlines(); a final line break opens no further line
RECURSIVE SplitLines(_)
SplitLines(s) ==
    IF s = <<>> THEN <<>>
    ELSE LET brk == {i \in 1..Len(s) : s[i] = NL}
         IN IF brk = {} THEN <<s>>
            ELSE <<SubSeq(s, 1, Min(brk) - 1)>> \o SplitLines(Tail2(s, Min(brk) + 1))

\* the index of the first atom at or after i that is not whitespace
SkipWs(line, i) ==
    LET rest == {j \in i..Len(line) : ~IsWs(line[j])}
    IN IF rest = {} THEN Len(line) + 1 ELSE Min(rest)
At(line, i, c) == i <= Len(line) /\ line[i] = c

\* line 131: ^\s*#\s*Context from my IDE setup:
MatchContextHeading(line) ==
    LET i == SkipWs(line, 1)
    IN At(line, i, "#") /\ At(line, SkipWs(line, i + 1), CTX)
\* lines 133, 136: ^\s*##\s*<word>\s*
MatchHeading2(line, word) ==
    LET i == SkipWs(line, 1)
    IN At(line, i, "#") /\ At(line, i + 1, "#") /\ At(line, SkipWs(line, i + 2), word)
\* lines 139, 141: ^\s*-\s*<word>\s*
MatchDashWord(line, word) ==
    LET i == SkipWs(line, 1)
    IN At(line, i, "-") /\ At(line, SkipWs(line, i + 1), word)
\* line 145: ^\s*-\s+
MatchBullet(line) ==
    LET i == SkipWs(line, 1)
    IN At(line, i, "-") /\ i + 1 <= Len(line) /\ IsWs(line[i + 1])

\* a variant of FilterLine that leaves skip mode on at a line that is not a bullet
FilterLine_stickySkip(line, skip) ==
    IF MatchContextHeading(line) THEN [keep |-> FALSE, skip |-> skip]
    ELSE IF MatchHeading2(line, ACTIVE) THEN [keep |-> FALSE, skip |-> FALSE]
    ELSE IF MatchHeading2(line, TABS) THEN [keep |-> FALSE, skip |-> TRUE]
    ELSE IF MatchDashWord(line, ACTIVE) THEN [keep |-> FALSE, skip |-> skip]
    ELSE IF MatchDashWord(line, TABS) THEN [keep |-> FALSE, skip |-> TRUE]
    ELSE IF skip /\ MatchBullet(line) THEN [keep |-> FALSE, skip |-> TRUE]
    ELSE [keep |-> TRUE, skip |-> skip]

\* lines 130-149: one iteration of the line loop
FilterLine(line, skip) ==
    IF MatchContextHeading(line) THEN [keep |-> FALSE, skip |-> skip]
    ELSE IF MatchHeading2(line, ACTIVE) THEN [keep |-> FALSE, skip |-> FALSE]
    ELSE IF MatchHeading2(line, TABS) THEN [keep |-> FALSE, skip |-> TRUE]
    ELSE IF MatchDashWord(line, ACTIVE) THEN [keep |-> FALSE, skip |-> skip]
    ELSE IF MatchDashWord(line, TABS) THEN [keep |-> FALSE, skip |-> TRUE]
    ELSE IF skip /\ MatchBullet(line) THEN [keep |-> FALSE, skip |-> TRUE]
    ELSE [keep |-> TRUE, skip |-> FALSE]

\* line 152: "\n".join(out)
RECURSIVE JoinLines(_)
JoinLines(ls) ==
    IF ls = <<>> THEN <<>>
    ELSE IF Len(ls) = 1 THEN ls[1]
    ELSE ls[1] \o <<NL>> \o JoinLines(Tail(ls))

\* a variant of CollapseNewlines that leaves one line break of every run
CollapseNewlines_toOne(s) ==
    LET keep == {i \in 1..Len(s) : ~(s[i] = NL /\ i > 1 /\ s[i - 1] = NL)}
        F[n \in 0..Len(s)] ==
            IF n = 0 THEN <<>>
            ELSE IF n \in keep THEN Append(F[n - 1], s[n]) ELSE F[n - 1]
    IN F[Len(s)]

\* line 153: re.sub(r"\n{3,}", "\n\n", ...): the third and later line breaks
\* of a run are dropped
CollapseNewlines(s) ==
    LET keep == {i \in 1..Len(s) :
                    ~(s[i] = NL /\ i > 2 /\ s[i - 1] = NL /\ s[i - 2] = NL)}
        F[n \in 0..Len(s)] ==
            IF n = 0 THEN <<>>
            ELSE IF n \in keep THEN Append(F[n - 1], s[n]) ELSE F[n - 1]
    IN F[Len(s)]

\* line 153: str.strip()
Strip(s) ==
    LET ink == {i \in 1..Len(s) : ~IsWs(s[i])}
    IN IF ink = {} THEN <<>>
       ELSE SubSeq(s, Min(ink), CHOOSE i \in ink : \A j \in ink : j <= i)

\* lines 129-149 as a fold over the lines: [out, skip] after the first n lines
FilterLines(ls) ==
    LET F[n \in 0..Len(ls)] ==
            IF n = 0 THEN [out |-> <<>>, skip |-> FALSE]
            ELSE LET r == FilterLine(ls[n], F[n - 1].skip)
                 IN [out |-> IF r.keep THEN Append(F[n - 1].out, ls[n]) ELSE F[n - 1].out,
                     skip |-> r.skip]
    IN F[Len(ls)].out

\* lines 120-154
clean_user_text(s) ==
    IF s = <<>> THEN s
    ELSE Strip(CollapseNewlines(JoinLines(FilterLines(SplitLines(RemoveEnvContext(s))))))

(***************************************************************************)
(* SpecClean: clean_user_text run on one text, one loop iteration a step.  *)
(***************************************************************************)
LineForms ==
    {<<"a">>, <<>>, <<OPEN>>, <<CLOSE>>,
     <<"#", "#", " ", TABS>>, <<"-", " ", "a">>, <<"#", " ", CTX>>,
     <<"#", "#", " ", ACTIVE, " ", "a">>, <<"-", "a">>, <<"-", " ", TABS>>}
TextLines == UNION {[1..n -> LineForms] : n \in 0..MaxTextLines}
Texts == {JoinLines(ls) : ls \in TextLines}

InitClean ==
    /\ text \in Texts
    /\ lines = <<>> /\ li = 0 /\ out = <<>> /\ skip_bullets = FALSE
    /\ cleaned = <<>> /\ cpc = "start"
    /\ NormIdle
    /\ MainIdle

\* lines 121-128
CleanStart ==
    /\ cpc = "start"
    /\ IF text = <<>>
       THEN /\ cleaned' = text
            /\ cpc' = "done"
            /\ UNCHANGED <<lines, li>>
       ELSE /\ lines' = SplitLines(RemoveEnvContext(text))
            /\ li' = 1
            /\ cpc' = "loop"
            /\ UNCHANGED cleaned
    /\ UNCHANGED <<text, out, skip_bullets, normVars, mainVars>>

\* lines 129-149, one line
CleanLine ==
    /\ cpc = "loop"
    /\ li <= Len(lines)
    /\ LET r == FilterLine(lines[li], skip_bullets)
       IN /\ out' = IF r.keep THEN Append(out, lines[li]) ELSE out
          /\ skip_bullets' = r.skip
    /\ li' = li + 1
    /\ UNCHANGED <<text, lines, cleaned, cpc, normVars, mainVars>>

\* lines 151-154
CleanFinish ==
    /\ cpc = "loop"
    /\ li > Len(lines)
    /\ cleaned' = Strip(CollapseNewlines(JoinLines(out)))
    /\ cpc' = "done"
    /\ UNCHANGED <<text, lines, li, out, skip_bullets, normVars, mainVars>>

NextClean == CleanStart \/ CleanLine \/ CleanFinish
SpecClean == InitClean /\ [][NextClean]_vars

(***************************************************************************)
(* Properties of clean_user_text (checked under SpecClean).                *)
(***************************************************************************)
CleanDone == cpc = "done"
IsMarker(line) ==
    \/ MatchContextHeading(line)
    \/ MatchHeading2(line, ACTIVE) \/ MatchHeading2(line, TABS)
    \/ MatchDashWord(line, ACTIVE) \/ MatchDashWord(line, TABS)
\* a line the filter and the final strip leave as it is
PlainLine(l) ==
    /\ l # <<>>
    /\ \A i \in 1..Len(l) : l[i] \notin {NL, OPEN, CLOSE}
    /\ ~IsWs(l[1]) /\ ~IsWs(l[Len(l)])
    /\ ~IsMarker(l)
\* t is A, a line break, one complete block, a line break, B
BlockAt(t, i, j) ==
    /\ i < j /\ t[i] = OPEN /\ t[j] = CLOSE
    /\ \A n \in 1..Len(t) : t[n] \in {OPEN, CLOSE} => n \in {i, j}
    /\ i >= 3 /\ t[i - 1] = NL /\ PlainLine(SubSeq(t, 1, i - 2))
    /\ j + 2 <= Len(t) /\ t[j + 1] = NL /\ PlainLine(Tail2(t, j + 2))

\* C8 as stated: A, newline, a complete environment_context block, newline, B
\* is cleaned to A, newline, B, with no blank line left.
C8_JoinedBySingleNewline ==
    CleanDone =>
      \A i, j \in 1..Len(text) :
        BlockAt(text, i, j) =>
          cleaned = SubSeq(text, 1, i - 2) \o <<NL>> \o Tail2(text, j + 2)

\* C8 amended: the block is removed whatever newlines it holds and the two
\* line breaks that bounded it remain: A, newline, newline, B.
C8_BlockLeavesBlankLine ==
    CleanDone =>
      \A i, j \in 1..Len(text) :
        BlockAt(text, i, j) =>
          cleaned = SubSeq(text, 1, i - 2) \o <<NL, NL>> \o Tail2(text, j + 2)
C8_Witness ==
    /\ CleanDone
    /\ text = <<"a", NL, OPEN, NL, CLOSE, NL, "a">>
    /\ cleaned = <<"a", NL, NL, "a">>

\* one iteration of the line loop is taken on lines[li]
LineStep == cpc = "loop" /\ cpc' = "loop" /\ li' = li + 1
ExampleLines == <<<<"#", "#", " ", TABS>>, <<"-", " ", "a">>, <<"-", " ", "a">>, <<"a">>>>
C10_EntersOnlyByOpenTabs ==
    (~skip_bullets /\ skip_bullets') =>
        MatchHeading2(lines[li], TABS) \/ MatchDashWord(lines[li], TABS)
C10_BulletDropped ==
    (skip_bullets /\ MatchBullet(lines[li])) => (out' = out /\ skip_bullets')
C10_NormalBulletKept ==
    (~skip_bullets /\ MatchBullet(lines[li]) /\ ~IsMarker(lines[li])) =>
        (out' = Append(out, lines[li]) /\ ~skip_bullets')
C10_Example ==
    (CleanDone /\ lines = ExampleLines) => out = <<<<"a">>>>

\* C10 as stated: bullet-skip mode is entered only by an Open-tabs line; in
\* it every bullet line is dropped and the mode persists; the first line in
\* it that is not a bullet ends the mode and is kept; in normal mode a
\* bullet that is no marker is kept.
C10_TwoStateMachine ==
    [][LineStep =>
         /\ C10_EntersOnlyByOpenTabs
         /\ C10_BulletDropped
         /\ C10_NormalBulletKept
         /\ (skip_bullets /\ ~MatchBullet(lines[li])) =>
               (out' = Append(out, lines[li]) /\ ~skip_bullets')]_vars

\* C10 amended: as stated, except that an IDE-context marker line is
\* dropped in either mode (a Context heading or "- Active file:" leaves the
\* mode as it is, "## Active file:" ends it, an Open-tabs line enters it);
\* the first line in bullet-skip mode that is neither a bullet nor a marker
\* ends the mode and is kept.
C10_TwoStateMachineWithMarkers ==
    /\ []C10_Example
    /\ [][LineStep =>
            /\ C10_EntersOnlyByOpenTabs
            /\ C10_BulletDropped
            /\ C10_NormalBulletKept
            /\ (skip_bullets /\ ~MatchBullet(lines[li]) /\ ~IsMarker(lines[li])) =>
                  (out' = Append(out, lines[li]) /\ ~skip_bullets')
            /\ IsMarker(lines[li]) =>
                  /\ out' = out
                  /\ skip_bullets' =
                        IF MatchHeading2(lines[li], ACTIVE) THEN FALSE
                        ELSE IF MatchHeading2(lines[li], TABS)
                                \/ MatchDashWord(lines[li], TABS) THEN TRUE
                        ELSE skip_bullets]_vars
C10_Witness ==
    /\ CleanDone /\ lines = ExampleLines
    /\ out = <<<<"a">>>> /\ cleaned = <<"a">> /\ ~skip_bullets

(***************************************************************************)
(* format_time and render_content_blocks                                   *)
(***************************************************************************)
\* the atoms that stand for a backtick and for a code fence of three
BQ == "BACKTICK"
FENCE == "FENCE"
TruncToolResult == 1000
TruncDict == 2000

\* s[:n]
Truncate(s, n) == SubSeq(s, 1, IF Len(s) < n THEN Len(s) ELSE n)

\* lines 109-117: an ISO-8601 instant is re-rendered, any other truthy value
\* comes back as it is
format_time(ts) ==
    IF ~Truthy(ts) THEN Str(<<"Unknown time">>)
    ELSE IF ts = Str(T1) THEN Str(<<"2024-01-01 00:00:00">>)
    ELSE IF ts = Str(T2) THEN Str(<<"2024-01-02 00:00:00">>)
    ELSE ts

\* json.dumps(v, indent=2) of the values used
JsonDumps(v) ==
    CASE v.k = "str" -> <<"\"">> \o v.s \o <<"\"">>
      [] v.k = "int" -> StrOf(v)
      [] v.k = "dict" -> v.json
      [] v.k = "list" -> <<"[", "]">>
      [] OTHER -> <<"null">>

\* dict.get(key, default)
GetOr(v, default) == IF Has(v) THEN v ELSE default

\* a content block: a dict with the keys the renderer reads
Block(type, txt, name, input, id, content) ==
    [k |-> "obj", type |-> type, text |-> txt, name |-> name, input |-> input,
     tool_use_id |-> id, content |-> content]

\* lines 120-124 on any value: a falsy value is returned as it is, re.sub
\* raises TypeError on a truthy value that is not a string
CleanValue(v) ==
    IF ~Truthy(v) THEN [raised |-> FALSE, text |-> v]
    ELSE IF IsStr(v) THEN [raised |-> FALSE, text |-> Str(clean_user_text(v.s))]
    ELSE [raised |-> TRUE, text |-> v]

\* lines 161-202: one element of a content list
RenderItem(o, item, content, role) ==
    IF IsObj(item)
    THEN LET ty == Get(item.type)
         IN IF ty \in {Str(<<"text">>), Str(<<"input_text">>), Str(<<"output_text">>)}
            THEN LET t0 == GetOr(item.text, Str(<<>>))
                     c == IF role = S_user THEN CleanValue(t0)
                          ELSE [raised |-> FALSE, text |-> t0]
                 IN IF c.raised THEN [raised |-> TRUE, output |-> o]
                    ELSE [raised |-> FALSE,
                          output |-> IF Truthy(c.text)
                                     THEN o \o <<c.text, Str(<<>>)>> ELSE o]
            ELSE IF ty = Str(<<"tool_use">>)
            THEN [raised |-> FALSE,
                  output |-> o \o <<Str(<<"**Tool Use:** ", BQ>>
                                       \o StrOf(GetOr(item.name, Str(<<"unknown">>)))
                                       \o <<BQ>>),
                                   Str(<<FENCE, "json">>),
                                   Str(JsonDumps(GetOr(item.input, Dict(<<"{}">>)))),
                                   Str(<<FENCE>>),
                                   Str(<<>>)>>]
            ELSE IF ty = Str(<<"tool_result">>)
            THEN LET tc == GetOr(item.content, Str(<<>>))
                     head == Str(<<"**Tool Result:** ">>
                                 \o StrOf(GetOr(item.tool_use_id, Str(<<"unknown">>))))
                 IN [raised |-> FALSE,
                     output |->
                       IF IsStr(tc)
                       THEN o \o <<head, Str(<<FENCE>>),
                                   Str(Truncate(tc.s, TruncToolResult)
                                       \o (IF Len(tc.s) > TruncToolResult
                                           THEN <<"...">> ELSE <<>>)),
                                   Str(<<FENCE>>), Str(<<>>)>>
                       ELSE o \o <<head, Str(<<FENCE, "json">>),
                                   Str(Truncate(JsonDumps(tc), TruncToolResult)),
                                   Str(<<FENCE>>), Str(<<>>)>>]
            ELSE [raised |-> FALSE, output |-> o]
    ELSE IF IsStr(item)
    THEN [raised |-> FALSE, output |-> o \o <<item, Str(<<>>)>>]
    ELSE IF content.k = "dict"
    THEN [raised |-> FALSE,
          output |-> o \o <<Str(<<FENCE, "json">>),
                            Str(Truncate(JsonDumps(content), TruncDict)),
                            Str(<<FENCE>>), Str(<<>>)>>]
    ELSE [raised |-> FALSE, output |-> o]

\* lines 157-209: the lines appended to o, or the exception raised
render_content_blocks(o, content, role) ==
    IF content.k = "list"
    THEN LET F[n \in 0..Len(content.items)] ==
                 IF n = 0 THEN [raised |-> FALSE, output |-> o]
                 ELSE IF F[n - 1].raised THEN F[n - 1]
                 ELSE RenderItem(F[n - 1].output, content.items[n], content, role)
         IN F[Len(content.items)]
    ELSE IF IsStr(content)
    THEN LET c == IF role = S_user THEN CleanValue(content)
                  ELSE [raised |-> FALSE, text |-> content]
         IN [raised |-> FALSE,
             output |-> IF Truthy(c.text) THEN o \o <<c.text, Str(<<>>)>> ELSE o]
    ELSE [raised |-> FALSE, output |-> o]

(***************************************************************************)
(* main: the aggregation loop, the sort and the document assembly.         *)
(***************************************************************************)
\* one line of a .jsonl file: blank, not JSON, or a JSON value (dict tells
\* whether the value is an object)
BlankLine == [k |-> "blank"]
BadJsonLine == [k |-> "badjson"]
JsonLine(v) == [k |-> "json", dict |-> TRUE, v |-> v]
NonDictLine == [k |-> "json", dict |-> FALSE, v |-> List(<<Num(1)>>)]

UserText == <<"#", "#", " ", TABS, NL, "-", " ", "a", NL, "h", "i">>
SystemRecord == [BaseRecord EXCEPT !.type = Str(S_system)]
UserRecord == [BaseRecord EXCEPT !.role = Str(S_User), !.content = Str(UserText)]
AssistantRecord ==
    [BaseRecord EXCEPT
       !.timestamp = Str(T2),
       !.message = MsgObj(Str(S_assistant),
                          List(<<Block(Str(<<"text">>), Str(<<"b">>), Absent, Absent, Absent, Absent),
                                 Str(<<"s">>),
                                 Block(Str(<<"tool_use">>), Absent, Str(<<"ls">>), Absent, Absent, Absent),
                                 Block(Str(<<"tool_result">>), Absent, Absent, Absent, Str(<<"7">>), Str(<<"ok">>)),
                                 Block(Str(<<"image">>), Absent, Absent, Absent, Absent, Absent)>>))]
DictContentRecord ==
    [BaseRecord EXCEPT !.role = Str(S_assistant), !.timestamp = Str(T1),
                       !.content = Dict(<<"{", "x", "}">>)]
WrongTypeRecord ==
    [BaseRecord EXCEPT
       !.role = Str(S_user), !.timestamp = Num(7),
       !.content = List(<<Block(Str(<<"text">>), Num(5), Absent, Absent, Absent, Absent)>>)]

LineKinds ==
    {BlankLine, BadJsonLine, NonDictLine} \cup
    {JsonLine(r) : r \in {SystemRecord, UserRecord, AssistantRecord,
                          DictContentRecord, WrongTypeRecord}}

\* the files of at most n lines
FilesUpTo(n) == UNION {[1..m -> LineKinds] : m \in 0..n}
\* the corpora of nfiles files holding at most budget lines together
RECURSIVE CorporaOf(_, _)
CorporaOf(nfiles, budget) ==
    IF nfiles = 0 THEN {<<>>}
    ELSE UNION {{<<f>> \o rest : rest \in CorporaOf(nfiles - 1, budget - Len(f))} :
                   f \in FilesUpTo(budget)}

\* line 237: the files found, by base name; line 271: os.path.basename
FileNames == <<F1, <<"b", ".", "j", "s", "o", "n", "l">>>>
FileName(i) == Str(FileNames[i])

\* line 280: the sort key
SortKey(m) == IF Truthy(m.timestamp) THEN m.timestamp ELSE Str(<<>>)

\* the order of the atoms timestamps are made of
AtomOrd(c) ==
    CASE c = T1[1] -> 1
      [] c = T2[1] -> 2
      [] c = "x" -> 3
\* s < t on strings
RECURSIVE StrLess(_, _)
StrLess(s, t) ==
    IF t = <<>> THEN FALSE
    ELSE IF s = <<>> THEN TRUE
    ELSE IF s[1] = t[1] THEN StrLess(Tail(s), Tail(t))
    ELSE AtomOrd(s[1]) < AtomOrd(t[1])

\* a < b is defined: both strings or both integers
Comparable(a, b) == a.k = b.k /\ a.k \in {"str", "int"}
\* a < b on keys
KeyLess(a, b) == IF a.k = "str" THEN StrLess(a.s, b.s) ELSE a.n < b.n

\* list.sort raises TypeError: some two keys cannot be compared
SortRaises(ms) ==
    \E i, j \in 1..Len(ms) : i # j /\ ~Comparable(SortKey(ms[i]), SortKey(ms[j]))

\* a variant of SortedInsert that puts x before the elements of equal key
SortedInsert_beforeTies(sorted, x) ==
    LET later == {i \in 1..Len(sorted) : ~KeyLess(SortKey(sorted[i]), SortKey(x))}
        at == IF later = {} THEN Len(sorted) + 1 ELSE Min(later)
    IN SubSeq(sorted, 1, at - 1) \o <<x>> \o Tail2(sorted, at)

\* x put into a sorted list before the first element of greater key
SortedInsert(sorted, x) ==
    LET later == {i \in 1..Len(sorted) : KeyLess(SortKey(x), SortKey(sorted[i]))}
        at == IF later = {} THEN Len(sorted) + 1 ELSE Min(later)
    IN SubSeq(sorted, 1, at - 1) \o <<x>> \o Tail2(sorted, at)

\* line 280: list.sort(key=...), a stable ascending sort
SortMessagesOf(ms) ==
    LET F[n \in 0..Len(ms)] ==
            IF n = 0 THEN <<>> ELSE SortedInsert(F[n - 1], ms[n])
    IN F[Len(ms)]

UpperChar(c) ==
    CASE c = "a" -> "A"
      [] c = "e" -> "E"
      [] c = "i" -> "I"
      [] c = "n" -> "N"
      [] c = "r" -> "R"
      [] c = "s" -> "S"
      [] c = "t" -> "T"
      [] c = "u" -> "U"
      [] OTHER -> c
Upper(s) == [i \in 1..Len(s) |-> UpperChar(s[i])]

Init ==
    /\ files \in CorporaOf(Len(FileNames), MaxLines)
    /\ file_idx = 1
    /\ line_idx = 0
    /\ all_messages = <<>>
    /\ total_lines = 0
    /\ skipped_lines = 0
    /\ output = <<>>
    /\ current_conversation = Null
    /\ msg_idx = 0
    /\ message_count = 0
    /\ pc = "read"
    /\ NormIdle
    /\ CleanIdle

\* lines 257-275: one line of the current file.  A JSON value that is not
\* an object makes normalize_message raise AttributeError, which line 276
\* catches outside the line loop: the rest of the file is not read.
ReadLine ==
    /\ pc = "read"
    /\ file_idx <= Len(files)
    /\ line_idx < Len(files[file_idx])
    /\ LET line == files[file_idx][line_idx + 1]
           msg == normalize_message(line.v, FileName(file_idx))
       IN /\ total_lines' = total_lines + 1
          /\ IF line.k = "blank"
             THEN /\ line_idx' = line_idx + 1
                  /\ UNCHANGED <<file_idx, skipped_lines, all_messages>>
             ELSE IF line.k = "badjson"
             THEN /\ line_idx' = line_idx + 1
                  /\ skipped_lines' = skipped_lines + 1
                  /\ UNCHANGED <<file_idx, all_messages>>
             ELSE IF ~line.dict
             THEN /\ file_idx' = file_idx + 1
                  /\ line_idx' = 0
                  /\ UNCHANGED <<skipped_lines, all_messages>>
             ELSE IF msg = None
             THEN /\ line_idx' = line_idx + 1
                  /\ skipped_lines' = skipped_lines + 1
                  /\ UNCHANGED <<file_idx, all_messages>>
             ELSE /\ line_idx' = line_idx + 1
                  /\ all_messages' = Append(all_messages, msg)
                  /\ UNCHANGED <<file_idx, skipped_lines>>
    /\ UNCHANGED <<files, output, current_conversation, msg_idx, message_count, pc,
                   normVars, cleanVars>>

\* line 250: the file is exhausted, the loop goes to the next one
NextFile ==
    /\ pc = "read"
    /\ file_idx <= Len(files)
    /\ line_idx = Len(files[file_idx])
    /\ file_idx' = file_idx + 1
    /\ line_idx' = 0
    /\ UNCHANGED <<files, all_messages, total_lines, skipped_lines, output,
                   current_conversation, msg_idx, message_count, pc,
                   normVars, cleanVars>>

\* lines 279-288: the sort, then the title of the document
SortMessages ==
    /\ pc = "read"
    /\ file_idx > Len(files)
    /\ IF SortRaises(all_messages)
       THEN /\ pc' = "crashed"
            /\ UNCHANGED <<all_messages, output, msg_idx>>
       ELSE /\ all_messages' = SortMessagesOf(all_messages)
            /\ output' = <<Str(<<"# Claude/Codex Chat History">>), Str(<<>>)>>
            /\ msg_idx' = 1
            /\ pc' = "render"
    /\ UNCHANGED <<files, file_idx, line_idx, total_lines, skipped_lines,
                   current_conversation, message_count, normVars, cleanVars>>

\* lines 295-301: the section header of a new source file
ConversationHeader(msg) ==
    <<Str(<<"\n---\n\n## Conversation: ">> \o StrOf(msg.file) \o <<NL>>)>>
      \o (IF Truthy(msg.cwd)
          THEN <<Str(<<"**Working Directory:** ", BQ>> \o StrOf(msg.cwd) \o <<BQ, NL>>)>>
          ELSE <<>>)
      \o (IF Truthy(msg.session_id)
          THEN <<Str(<<"**Session ID:** ", BQ>> \o StrOf(msg.session_id) \o <<BQ, NL>>)>>
          ELSE <<>>)

\* lines 291-306: one message of the sorted list
RenderMessage ==
    /\ pc = "render"
    /\ msg_idx <= Len(all_messages)
    /\ LET msg == all_messages[msg_idx]
           time_str == format_time(msg.timestamp)
           o1 == IF current_conversation # msg.file
                 THEN output \o ConversationHeader(msg) ELSE output
           role == IF Upper(msg.role) # <<>> THEN Upper(msg.role) ELSE <<"UNKNOWN">>
           o2 == Append(o1, Str(<<"### [">> \o StrOf(time_str) \o <<"] ">> \o role
                                \o <<NL>>))
           r == render_content_blocks(o2, msg.content, msg.role)
       IN /\ current_conversation' = msg.file
          /\ output' = r.output
          /\ IF r.raised
             THEN /\ pc' = "crashed"
                  /\ UNCHANGED <<msg_idx, message_count>>
             ELSE /\ msg_idx' = msg_idx + 1
                  /\ message_count' = message_count + 1
                  /\ UNCHANGED pc
    /\ UNCHANGED <<files, file_idx, line_idx, all_messages, total_lines,
                   skipped_lines, normVars, cleanVars>>

\* lines 308-317: the closing line, then "\n".join(output), which raises
\* TypeError when an element of output is not a string
Finish ==
    /\ pc = "render"
    /\ msg_idx > Len(all_messages)
    /\ output' = Append(output, Str(<<"\n---\n\n*Total messages: ">>
                                     \o StrOf(Num(message_count)) \o <<"*">>))
    /\ pc' = IF \E i \in 1..Len(output) : ~IsStr(output[i]) THEN "crashed" ELSE "done"
    /\ UNCHANGED <<files, file_idx, line_idx, all_messages, total_lines,
                   skipped_lines, current_conversation, msg_idx, message_count,
                   normVars, cleanVars>>

Next == ReadLine \/ NextFile \/ SortMessages \/ RenderMessage \/ Finish
Spec == Init /\ [][Next]_vars

(***************************************************************************)
(* Properties of main (checked under Spec).                                *)
(***************************************************************************)
\* the lines the loop has passed: every line of the files before file_idx
\* and the first line_idx lines of the current file
Passed ==
    {<<f, i>> \in (1..Len(files)) \X (1..MaxLines) :
        /\ i <= Len(files[f])
        /\ f < file_idx \/ (f = file_idx /\ i <= line_idx)}
LineAt(p) == files[p[1]][p[2]]
IsMessageLine(p) ==
    /\ LineAt(p).k = "json" /\ LineAt(p).dict
    /\ normalize_message(LineAt(p).v, FileName(p[1])) # None

\* C5: every non-empty line passed is one collected message or one skipped
\* count, and every valid message line is collected, whatever line came
\* before it in its file (a line that is not JSON, a rejected record, a JSON
\* value that is not an object).
C5_EveryLineCounted ==
    /\ Len(all_messages) + skipped_lines
         = Cardinality({p \in Passed : LineAt(p).k # "blank"})
    /\ Len(all_messages) = Cardinality({p \in Passed : IsMessageLine(p)})

\* C6: no input corpus makes the run raise: the sort, the rendering and the
\* final join always go through.
C6_NeverRaises == pc # "crashed"

\* after is a stable ascending sort of before
IsStableSortOf(after, before) ==
    /\ Len(after) = Len(before)
    /\ \A i, j \in 1..Len(after) :
          i < j => ~KeyLess(SortKey(after[j]), SortKey(after[i]))
    /\ \A i, j \in 1..Len(after) :
          (SortKey(after[i]) = Str(<<>>) /\ SortKey(after[j]) # Str(<<>>)) => i < j
    /\ \E perm \in [1..Len(after) -> 1..Len(before)] :
          /\ \A i, j \in 1..Len(after) : i # j => perm[i] # perm[j]
          /\ \A i \in 1..Len(after) : after[i] = before[perm[i]]
          /\ \A i, j \in 1..Len(after) :
                (i < j /\ SortKey(after[i]) = SortKey(after[j])) => perm[i] < perm[j]

\* C7: the sort leaves a permutation of the collected messages with keys in
\* non-decreasing order ("" for a missing timestamp), the messages without
\* timestamp first, and messages of equal key in their input order.
C7_StableSort ==
    [][(pc = "read" /\ pc' = "render") => IsStableSortOf(all_messages', all_messages)]_vars
C7_Witness ==
    /\ pc = "render" /\ msg_idx = 1
    /\ files = <<<<JsonLine(UserRecord), JsonLine(DictContentRecord)>>,
                 <<JsonLine(UserRecord)>>>>
    /\ Len(all_messages) = 3
    /\ all_messages[1].file = FileName(1) /\ all_messages[1].timestamp = Null
    /\ all_messages[2].file = FileName(2) /\ all_messages[2].timestamp = Null
    /\ all_messages[3].timestamp = Str(T1)

\* C9: rendering a message whose content is a dict appends a JSON code block
\* of the dict, cut to 2000 characters, and a blank line.
C9_DictContentRendered ==
    [][(/\ pc = "render" /\ msg_idx <= Len(all_messages)
        /\ all_messages[msg_idx].content.k = "dict"
        /\ msg_idx' = msg_idx + 1)
       => /\ Len(output') >= Len(output) + 4
          /\ SubSeq(output', Len(output') - 3, Len(output')) =
                <<Str(<<FENCE, "json">>),
                  Str(Truncate(JsonDumps(all_messages[msg_idx].content), TruncDict)),
                  Str(<<FENCE>>), Str(<<>>)>>]_vars

====
